---- MODULE Spec2Model ----
(***************************************************************************)
(* Crop-type asset utilities of Open-ET/crop-type-assets.                  *)
(*                                                                         *)
(*   Spec       the Remote Job Submitter: the export loops of              *)
(*              export_field_crop_type_by_state.py and                     *)
(*              export_field_landsat_count_by_state.py run against the     *)
(*              remote task list and the output buckets, while the remote  *)
(*              service completes jobs on its own schedule.                *)
(*   MergeSpec  the Result Merger: main() of                               *)
(*              update_field_crop_type_by_state.py.                        *)
(*   WriteSpec  write_features() of update_field_crop_type_by_state.py     *)
(*              applied to arbitrary datasets, records and flags.          *)
(***************************************************************************)
EXTENDS Integers, Sequences, FiniteSets, TLC

(***************************************************************************)
(* Bounds of the model.                                                    *)
(***************************************************************************)
\* submitter runs started in one behaviour
MaxRuns == 2

(***************************************************************************)
(* Program constants.                                                      *)
(***************************************************************************)
year_min == 1997
year_max == 2024
cdl_year_min == 2008
cdl_year_max == 2024

cdl_coll_id == "USDA/NASS/CDL"
ca_coll_id == "projects/openet/assets/crop_type/california"

\* bucket_name/bucket_folder of the two exporters
CropBucket == "openet_geodatabase/temp_croptype_20250414"
LandsatBucket == "openet/crop_type/pixelcount"
Buckets == {CropBucket, LandsatBucket}

Range(s) == {s[i] : i \in DOMAIN s}

(***************************************************************************)
(* str.lower() on the state codes.  The product names and the digits of an *)
(* export id are already lower case, so lower() acts on the state code.    *)
(***************************************************************************)
LowerPairs ==
    { <<"AZ", "az">>, <<"AR", "ar">>, <<"CA", "ca">>, <<"CO", "co">>,
      <<"CT", "ct">>, <<"DE", "de">>, <<"FL", "fl">>, <<"GA", "ga">>,
      <<"ID", "id">>, <<"IL", "il">>, <<"IN", "in">>, <<"IA", "ia">>,
      <<"KS", "ks">>, <<"KY", "ky">>, <<"LA", "la">>, <<"ME", "me">>,
      <<"MD", "md">>, <<"MA", "ma">>, <<"MI", "mi">>, <<"MN", "mn">>,
      <<"MS", "ms">>, <<"MO", "mo">>, <<"MT", "mt">>, <<"NC", "nc">>,
      <<"ND", "nd">>, <<"NE", "ne">>, <<"NH", "nh">>, <<"NJ", "nj">>,
      <<"NM", "nm">>, <<"NV", "nv">>, <<"NY", "ny">>, <<"OH", "oh">>,
      <<"OK", "ok">>, <<"OR", "or">>, <<"PA", "pa">>, <<"RI", "ri">>,
      <<"SC", "sc">>, <<"SD", "sd">>, <<"TN", "tn">>, <<"TX", "tx">>,
      <<"UT", "ut">>, <<"VA", "va">>, <<"VT", "vt">>, <<"WA", "wa">>,
      <<"WI", "wi">>, <<"WV", "wv">>, <<"WY", "wy">> }

lower(s) ==
    IF \E p \in LowerPairs : p[1] = s
    THEN (CHOOSE p \in LowerPairs : p[1] = s)[2]
    ELSE s

(***************************************************************************)
(* Coverage Table: cdl_year_states and cdl_state_years.                    *)
(***************************************************************************)
CdlOverrideYears == 1997..2007

CdlOverride(year) ==
    CASE year = 2007 -> {"AR", "IA", "ID", "IL", "IN", "KS", "LA", "MI",
                         "MN", "MO", "MS", "MT", "ND", "NE", "OH", "OK", "OR",
                         "SD", "WA", "WI"}
      [] year = 2006 -> {"AR", "IA", "IL", "IN", "KS", "LA", "MN", "MO",
                         "MS", "ND", "NE", "OH", "OK", "SD", "WI"}
      [] year = 2005 -> {"AR", "IA", "IL", "IN", "MO", "MS", "ND", "NE", "WI"}
      [] year = 2004 -> {"AR", "FL", "IA", "IL", "IN", "MO", "MS", "ND", "NE", "WI"}
      [] year = 2003 -> {"AR", "IA", "IL", "IN", "MO", "MS", "ND", "NE", "WI"}
      [] year = 2002 -> {"AR", "IA", "IL", "IN", "MO", "MS", "ND", "NE",
                         "NC", "VA", "WV", "MD", "DE", "PA", "NJ", "NY", "CT", "RI"}
      [] year = 2001 -> {"AR", "IA", "IL", "IN", "MO", "MS", "ND", "NE"}
      [] year = 2000 -> {"AR", "IA", "IL", "IN", "MS", "ND"}
      [] year = 1999 -> {"AR", "IL", "MS", "ND"}
      [] year = 1998 -> {"ND"}
      [] year = 1997 -> {"ND"}
      [] OTHER -> {}

\* the keys of the dictionary cdl_year_states
CdlYearKeys == (cdl_year_min..cdl_year_max) \cup CdlOverrideYears

\* mutant: range(cdl_year_min, cdl_year_max) leaves the newest year out
cdl_year_states_ExclusiveMax(year, states) ==
    IF year \in cdl_year_min..(cdl_year_max - 1) THEN Range(states)
    ELSE CdlOverride(year)

\* cdl_year_states[year]; states is the run's state list
cdl_year_states(year, states) ==
    IF year \in cdl_year_min..cdl_year_max THEN Range(states) ELSE CdlOverride(year)

\* mutant: every requested year is taken as covered
cdl_state_years_NoTable(state, states, years) ==
    { y \in Range(years) : state \in Range(states) }

\* cdl_state_years[state], as a set; a state outside the run's list has no entry
cdl_state_years(state, states, years) ==
    { y \in Range(years) :
        /\ y \in CdlYearKeys
        /\ state \in cdl_year_states(y, states)
        /\ state \in Range(states) }

(***************************************************************************)
(* Source Selector.  Each selector yields the image id, the provenance     *)
(* string (crop_source / crop_src) and whether the branch raises.          *)
(***************************************************************************)
Remapped(img_id) == img_id \o " - remapped annual crops"

\* mutant: every year before cdl_year_min takes the remapped oldest image
CdlSource_RemapsAllBefore(state, year, states, years) ==
    IF year < cdl_year_min
    THEN [img |-> cdl_coll_id \o "/" \o ToString(cdl_year_min),
          src |-> Remapped(cdl_coll_id \o "/" \o ToString(cdl_year_min)),
          fatal |-> FALSE]
    ELSE [img |-> cdl_coll_id \o "/" \o ToString(year),
          src |-> cdl_coll_id \o "/" \o ToString(year),
          fatal |-> FALSE]

\* mutant: the split years take the image of the year itself
CdlSource_NoHalves(state, year, states, years) ==
    IF year > cdl_year_max
    THEN [img |-> cdl_coll_id \o "/" \o ToString(cdl_year_max),
          src |-> Remapped(cdl_coll_id \o "/" \o ToString(cdl_year_max)),
          fatal |-> FALSE]
    ELSE IF year < cdl_year_min /\ year \notin cdl_state_years(state, states, years)
    THEN [img |-> cdl_coll_id \o "/" \o ToString(cdl_year_min),
          src |-> Remapped(cdl_coll_id \o "/" \o ToString(cdl_year_min)),
          fatal |-> FALSE]
    ELSE [img |-> cdl_coll_id \o "/" \o ToString(year),
          src |-> cdl_coll_id \o "/" \o ToString(year),
          fatal |-> FALSE]

CdlSource(state, year, states, years) ==
    IF year > cdl_year_max
    THEN [img |-> cdl_coll_id \o "/" \o ToString(cdl_year_max),
          src |-> Remapped(cdl_coll_id \o "/" \o ToString(cdl_year_max)),
          fatal |-> FALSE]
    ELSE IF year < cdl_year_min /\ year \notin cdl_state_years(state, states, years)
    THEN [img |-> cdl_coll_id \o "/" \o ToString(cdl_year_min),
          src |-> Remapped(cdl_coll_id \o "/" \o ToString(cdl_year_min)),
          fatal |-> FALSE]
    ELSE IF year = 2005
    THEN IF state = "ID"
         THEN [img |-> "", src |-> "", fatal |-> TRUE]
         ELSE IF state = "MS"
         THEN [img |-> cdl_coll_id \o "/2005b", src |-> cdl_coll_id \o "/2005b",
               fatal |-> FALSE]
         ELSE [img |-> cdl_coll_id \o "/2005a", src |-> cdl_coll_id \o "/2005a",
               fatal |-> FALSE]
    ELSE IF year = 2007
    THEN IF state = "CA"
         THEN [img |-> "", src |-> "", fatal |-> TRUE]
         ELSE [img |-> cdl_coll_id \o "/2007a", src |-> cdl_coll_id \o "/2007a",
               fatal |-> FALSE]
    ELSE [img |-> cdl_coll_id \o "/" \o ToString(year),
          src |-> cdl_coll_id \o "/" \o ToString(year),
          fatal |-> FALSE]

CaDirectYears == {2014, 2016, 2018, 2019, 2020, 2021, 2022, 2023}

\* the California Crop Mapping image of the standalone regional export
LandiqSource(year) ==
    LET img == IF year \in CaDirectYears THEN ca_coll_id \o "/" \o ToString(year)
               ELSE IF year > 2023 THEN ca_coll_id \o "/2023"
               ELSE IF year \in {2015, 2017} THEN ca_coll_id \o "/" \o ToString(year - 1)
               ELSE IF year \in 2009..2013 THEN ca_coll_id \o "/2014"
               ELSE ""
    IN  [img |-> img,
         src |-> IF year \in CaDirectYears THEN img ELSE Remapped(img),
         fatal |-> ~(year \in CaDirectYears \/ year > 2023 \/ year \in {2015, 2017}
                     \/ year \in 2009..2013)]

\* "ca_img = ee.Image(ca_img_id).remap(cdl_remap_in, cdl_remap_out)" in every
\* branch of the regional export but the first
LandiqRemaps(year) == year \notin CaDirectYears

Min2(a, b) == IF a < b THEN a ELSE b
Max2(a, b) == IF a > b THEN a ELSE b

\* mutant: the composite takes the 2014 image for 2015 and 2017 too
CompositeSource_NoOddYears(year) ==
    LET ca == IF year \in CaDirectYears THEN ToString(year)
              ELSE IF year > 2023 THEN "2023"
              ELSE "2014"
        cdl == ToString(Min2(Max2(year, cdl_year_min), cdl_year_max))
    IN  [img |-> ca_coll_id \o "/" \o ca,
         src |-> IF year < 2009
                 THEN Remapped(cdl_coll_id \o "/" \o cdl)
                 ELSE Remapped("CA" \o ca \o " CDL" \o cdl \o " composite"),
         fatal |-> FALSE]

\* the California Crop Mapping / CDL composite
CompositeSource(year) ==
    LET ca == IF year \in CaDirectYears THEN ToString(year)
              ELSE IF year > 2023 THEN "2023"
              ELSE IF year \in {2015, 2017} THEN ToString(year - 1)
              ELSE "2014"
        cdl == ToString(Min2(Max2(year, cdl_year_min), cdl_year_max))
    IN  [img |-> ca_coll_id \o "/" \o ca,
         src |-> IF year < 2009
                 THEN Remapped(cdl_coll_id \o "/" \o cdl)
                 ELSE Remapped("CA" \o ca \o " CDL" \o cdl \o " composite"),
         fatal |-> FALSE]

\* the same in the composite export
CompositeRemaps(year) == year \notin CaDirectYears

(***************************************************************************)
(* State.                                                                  *)
(***************************************************************************)
VARIABLES
    \* the remote service and the buckets
    remote,         \* every task ever started: [desc, st, bucket, img, src]
    bucket,         \* bucket/folder -> the file names in it
    \* one submitter run
    pc,             \* where the run is
    cfg,            \* [util, states, years, overwrite]
    plan,           \* the iterations of the export loops, in order
    idx,            \* the iteration the run is at
    tasks,          \* the active-task snapshot: description -> task
    bucket_files,   \* the bucket listing
    runs,           \* runs started so far
    nTaskQueries,   \* calls of get_ee_tasks in this run
    nBucketQueries, \* calls of list_blobs in this run
    callFailed      \* a call to the remote service failed in this run

evars == <<remote, bucket, pc, cfg, plan, idx, tasks, bucket_files, runs,
           nTaskQueries, nBucketQueries, callFailed>>

\* the Result Merger (MergeSpec)
VARIABLES
    shp,            \* state -> its shapefile layer, or NoFile
    stats_ws,       \* the local stats folder: file name -> content
    blobs,          \* the stats bucket folder: file name -> content
    m_pc,           \* where main() is
    m_cfg,          \* [states, years, overwrite]
    m_si,           \* index of the state being processed
    m_yi,           \* index of the year being processed
    m_err,          \* the exception that ended the run, or ""
    m_log           \* what the run did, in order

mvars == <<shp, stats_ws, blobs, m_pc, m_cfg, m_si, m_yi, m_err, m_log>>

\* write_features() on its own (WriteSpec)
VARIABLES
    wf_layer,       \* the layer of the shapefile
    wf_features,    \* the features argument
    wf_year,        \* the year argument
    wf_overwrite,   \* the overwrite argument
    wf_calls,       \* the layers before the first call and after each call
    wf_before       \* the layer before the last call

wvars == <<wf_layer, wf_features, wf_year, wf_overwrite, wf_calls, wf_before>>

\* one iteration of the CDL loops on its own (SelectSpec)
VARIABLES
    s_pc,           \* "off", "ready" or "done"
    s_states,       \* the states list of the run
    s_requested,    \* the years asked for, before the range filter
    s_state,        \* the state of the iteration
    s_year,         \* the requested year looked at
    s_out,          \* what the exporter does with (s_state, s_year)
    s_ca_out,       \* what the two California loops do with it
    s_covered,      \* whether s_year is in cdl_state_years[s_state]
    s_ca_remap,     \* whether each California loop remaps the regional image
    s_merge_years   \* the years the merger's CDL loop visits for s_state

svars == <<s_pc, s_states, s_requested, s_state, s_year, s_out, s_ca_out,
           s_covered, s_ca_remap, s_merge_years>>

\* the set-up of main() on its own (SetupSpec)
VARIABLES
    a_pc,           \* "off", "years", "remap", "done" or "filled"
    a_tokens,       \* the --years tokens, each a year or a range of years
    a_export_years, \* years of the exporter after the enumeration
    a_merge_years,  \* years of the merger after the enumeration
    a_rows,         \* the rows (IN, OUT) of cdl_annual_crop_remap_table.csv
    a_remap_in,     \* cdl_remap_in
    a_remap_out     \* cdl_remap_out

avars == <<a_pc, a_tokens, a_export_years, a_merge_years, a_rows, a_remap_in,
           a_remap_out>>

vars == <<evars, mvars, wvars, svars, avars>>

(***************************************************************************)
(* The export loops as a list of iterations.                               *)
(***************************************************************************)
Item(sec, state, year, zone) ==
    [sec |-> sec, state |-> state, year |-> year, zone |-> zone]

\* "for state in states: if state == 'CA': continue; for year in years"
CdlItems(states, years) ==
    LET ns == SelectSeq(states, LAMBDA s : s # "CA")
        n == Len(years)
    IN  [k \in 1..(Len(ns) * n) |->
            Item("cdl", ns[((k - 1) \div n) + 1], years[((k - 1) % n) + 1], "")]

\* "if 'CA' in states: state = 'CA'; for year in years"
CaItems(sec, states, years) ==
    IF "CA" \in Range(states)
    THEN [k \in 1..Len(years) |-> Item(sec, "CA", years[k], "")]
    ELSE <<>>

CropTypePlan(states, years) ==
    CdlItems(states, years) \o CaItems("landiq", states, years)
        \o CaItems("composite", states, years)

\* the UTM zones of a state's MGRS tiles, as the field collection reports them
ZonesOf(state) ==
    CASE state = "ND" -> {"13", "14"}
      [] state = "CA" -> {"10", "11"}
      [] OTHER -> {}

\* the orders in which a Python set of zones may be iterated
Orders(S) ==
    { q \in [1..Cardinality(S) -> S] : \A i, j \in DOMAIN q : i # j => q[i] # q[j] }

RECURSIVE LandsatPlans(_)
LandsatPlans(states) ==
    IF states = <<>> THEN { <<>> }
    ELSE { [k \in DOMAIN q |-> Item("landsat", Head(states), 0, q[k])] \o rest :
             q \in Orders(ZonesOf(Head(states))), rest \in LandsatPlans(Tail(states)) }

export_id(it) ==
    CASE it.sec = "cdl" -> lower(it.state) \o "_cdl_" \o ToString(it.year)
      [] it.sec = "landiq" -> lower(it.state) \o "_landiq_" \o ToString(it.year)
      [] it.sec = "composite" -> lower(it.state) \o "_composite_" \o ToString(it.year)
      [] it.sec = "landsat" -> lower(it.state) \o "_landsat_utm" \o it.zone

\* the iteration ends at a "continue" before any identifier is attempted
NoSource(it) ==
    CASE it.sec = "cdl" ->
            it.year \notin cdl_state_years(it.state, cfg.states, cfg.years)
      [] it.sec = "landiq" -> it.year < 2009
      [] it.sec = "composite" -> it.year < cdl_year_min
      [] it.sec = "landsat" -> FALSE

\* mutant: the provenance of an identifier that is in the active-task
\* snapshot differs from the one the same pair gets otherwise
Source_SnapshotDependent(it) ==
    LET chosen ==
            CASE it.sec = "cdl" -> CdlSource(it.state, it.year, cfg.states, cfg.years)
              [] it.sec = "landiq" -> LandiqSource(it.year)
              [] it.sec = "composite" -> CompositeSource(it.year)
              [] it.sec = "landsat" -> [img |-> "", src |-> "", fatal |-> FALSE]
    IN  IF export_id(it) \in DOMAIN tasks
        THEN [chosen EXCEPT !.src = Remapped(@)]
        ELSE chosen

Source(it) ==
    CASE it.sec = "cdl" -> CdlSource(it.state, it.year, cfg.states, cfg.years)
      [] it.sec = "landiq" -> LandiqSource(it.year)
      [] it.sec = "composite" -> CompositeSource(it.year)
      [] it.sec = "landsat" -> [img |-> "", src |-> "", fatal |-> FALSE]

BucketOf(util) == IF util = "landsat_count" THEN LandsatBucket ELSE CropBucket

InLoop == pc = "loop" /\ idx <= Len(plan)
Cur == plan[idx]
CurId == export_id(Cur)

(***************************************************************************)
(* The run configurations explored.                                        *)
(***************************************************************************)
\* state lists after "sorted(list(set(...)))": upper case sorts before lower case
CropStateLists == { <<"ND">>, <<"ND", "nd">>, <<"CA">> }
LandsatStateLists == { <<"ND">> }
\* year lists after "sorted(list(years), reverse=True)"
YearLists == { <<2020>>, <<2007>> }

Configs ==
    { [util |-> "crop_type", states |-> s, years |-> y, overwrite |-> o] :
        s \in CropStateLists, y \in YearLists, o \in BOOLEAN }
    \cup
    { [util |-> "landsat_count", states |-> s, years |-> <<>>, overwrite |-> o] :
        s \in LandsatStateLists, o \in BOOLEAN }

PlansOf(c) ==
    IF c.util = "crop_type" THEN { CropTypePlan(c.states, c.years) }
    ELSE LandsatPlans(c.states)

EmptyTasks == [d \in {} |-> 0]

(***************************************************************************)
(* The remote service.                                                     *)
(***************************************************************************)
Active(i) == remote[i].st = "ACTIVE"
ActiveDescs == { remote[i].desc : i \in { j \in DOMAIN remote : Active(j) } }

\* the dictionaries get_ee_tasks may return: one active task per description
TaskSnapshots ==
    { f \in [ActiveDescs -> DOMAIN remote] :
        \A d \in ActiveDescs : Active(f[d]) /\ remote[f[d]].desc = d }

\* ee.data.cancelTask
CancelTask(i) ==
    IF Active(i) THEN [remote EXCEPT ![i].st = "CANCELLED"] ELSE remote

\* a running export finishes and writes "<fileNamePrefix>.csv"
R_Complete ==
    /\ \E i \in DOMAIN remote :
        /\ Active(i)
        /\ remote' = [remote EXCEPT ![i].st = "COMPLETED"]
        /\ bucket' = [bucket EXCEPT ![remote[i].bucket] = @ \cup {remote[i].desc \o ".csv"}]
    /\ UNCHANGED <<pc, cfg, plan, idx, tasks, bucket_files, runs,
                   nTaskQueries, nBucketQueries, callFailed>>
    /\ UNCHANGED <<mvars, wvars, svars, avars>>

(***************************************************************************)
(* One submitter run: main() of the two exporters.                         *)
(***************************************************************************)
E_StartRun ==
    /\ pc \in {"idle", "done", "aborted"}
    /\ runs < MaxRuns
    /\ \E c \in Configs : \E p \in PlansOf(c) :
            /\ cfg' = c
            /\ plan' = p
    /\ pc' = "auth"
    /\ idx' = 1
    /\ tasks' = EmptyTasks
    /\ bucket_files' = {}
    /\ runs' = runs + 1
    /\ nTaskQueries' = 0
    /\ nBucketQueries' = 0
    /\ callFailed' = FALSE
    /\ UNCHANGED <<remote, bucket>>
    /\ UNCHANGED <<mvars, wvars, svars, avars>>

\* ee.Initialize succeeds
E_Initialize ==
    /\ pc = "auth"
    /\ pc' = "tasks"
    /\ UNCHANGED <<remote, bucket, cfg, plan, idx, tasks, bucket_files, runs,
                   nTaskQueries, nBucketQueries, callFailed>>
    /\ UNCHANGED <<mvars, wvars, svars, avars>>

\* ee.Initialize fails: "return False" with a key file or a project id, an
\* uncaught exception with the default credentials
E_InitializeFails ==
    /\ pc = "auth"
    /\ pc' = "aborted"
    /\ callFailed' = TRUE
    /\ UNCHANGED <<remote, bucket, cfg, plan, idx, tasks, bucket_files, runs,
                   nTaskQueries, nBucketQueries>>
    /\ UNCHANGED <<mvars, wvars, svars, avars>>

\* tasks = utils.get_ee_tasks()
E_GetTasks ==
    /\ pc = "tasks"
    /\ \E f \in TaskSnapshots : tasks' = f
    /\ nTaskQueries' = nTaskQueries + 1
    /\ pc' = "bucket"
    /\ UNCHANGED <<remote, bucket, cfg, plan, idx, bucket_files, runs,
                   nBucketQueries, callFailed>>
    /\ UNCHANGED <<mvars, wvars, svars, avars>>

\* utils.get_ee_tasks() raises: nothing catches it
E_GetTasksFails ==
    /\ pc = "tasks"
    /\ nTaskQueries' = nTaskQueries + 1
    /\ pc' = "aborted"
    /\ callFailed' = TRUE
    /\ UNCHANGED <<remote, bucket, cfg, plan, idx, tasks, bucket_files, runs,
                   nBucketQueries>>
    /\ UNCHANGED <<mvars, wvars, svars, avars>>

\* mutant: the two queries in the other order; the listing is the older of
\* the two and lacks the files of the jobs that completed after it, the
\* snapshot is taken now
E_ListBucket_BeforeSnapshot ==
    /\ pc = "bucket"
    /\ \E late \in SUBSET { i \in DOMAIN remote :
                              /\ remote[i].st = "COMPLETED"
                              /\ remote[i].bucket = BucketOf(cfg.util) } :
          bucket_files' = bucket[BucketOf(cfg.util)]
                              \ { remote[i].desc \o ".csv" : i \in late }
    /\ \E f \in TaskSnapshots : tasks' = f
    /\ nBucketQueries' = nBucketQueries + 1
    /\ pc' = "loop"
    /\ UNCHANGED <<remote, bucket, cfg, plan, idx, runs, nTaskQueries, callFailed>>
    /\ UNCHANGED <<mvars, wvars, svars, avars>>

\* bucket_files = sorted([... bucket.list_blobs(prefix=bucket_folder + '/') ...])
E_ListBucket ==
    /\ pc = "bucket"
    /\ bucket_files' = bucket[BucketOf(cfg.util)]
    /\ nBucketQueries' = nBucketQueries + 1
    /\ pc' = "loop"
    /\ UNCHANGED <<remote, bucket, cfg, plan, idx, tasks, runs,
                   nTaskQueries, callFailed>>
    /\ UNCHANGED <<mvars, wvars, svars, avars>>

\* get_bucket / list_blobs raises: nothing catches it
E_ListBucketFails ==
    /\ pc = "bucket"
    /\ nBucketQueries' = nBucketQueries + 1
    /\ pc' = "aborted"
    /\ callFailed' = TRUE
    /\ UNCHANGED <<remote, bucket, cfg, plan, idx, tasks, bucket_files, runs,
                   nTaskQueries>>
    /\ UNCHANGED <<mvars, wvars, svars, avars>>

\* the "continue" of an uncovered (state, year), of a year before 2009 of the
\* regional export, of a year before cdl_year_min of the composite export
E_SkipNoSource ==
    /\ InLoop
    /\ NoSource(Cur)
    /\ idx' = idx + 1
    /\ UNCHANGED <<remote, bucket, pc, cfg, plan, tasks, bucket_files, runs,
                   nTaskQueries, nBucketQueries, callFailed>>
    /\ UNCHANGED <<mvars, wvars, svars, avars>>

\* mutant: the overwrite branch forgets to cancel the task of the snapshot
E_Overwrite_NoCancel ==
    /\ InLoop
    /\ ~NoSource(Cur)
    /\ cfg.overwrite
    /\ pc' = "start"
    /\ UNCHANGED <<remote, bucket, cfg, plan, idx, tasks, bucket_files, runs,
                   nTaskQueries, nBucketQueries, callFailed>>
    /\ UNCHANGED <<mvars, wvars, svars, avars>>

\* "if overwrite_flag: if export_id in tasks.keys(): ee.data.cancelTask(...)"
E_Overwrite ==
    /\ InLoop
    /\ ~NoSource(Cur)
    /\ cfg.overwrite
    /\ remote' = IF CurId \in DOMAIN tasks THEN CancelTask(tasks[CurId]) ELSE remote
    /\ pc' = "start"
    /\ UNCHANGED <<bucket, cfg, plan, idx, tasks, bucket_files, runs,
                   nTaskQueries, nBucketQueries, callFailed>>
    /\ UNCHANGED <<mvars, wvars, svars, avars>>

\* ee.data.cancelTask raises: nothing catches it
E_CancelFails ==
    /\ InLoop
    /\ ~NoSource(Cur)
    /\ cfg.overwrite
    /\ CurId \in DOMAIN tasks
    /\ pc' = "aborted"
    /\ callFailed' = TRUE
    /\ UNCHANGED <<remote, bucket, cfg, plan, idx, tasks, bucket_files, runs,
                   nTaskQueries, nBucketQueries>>
    /\ UNCHANGED <<mvars, wvars, svars, avars>>

\* mutant: the check against the active-task snapshot is lost
E_SkipSubmitted_Resubmits ==
    /\ InLoop
    /\ ~NoSource(Cur)
    /\ ~cfg.overwrite
    /\ CurId \in DOMAIN tasks
    /\ pc' = "start"
    /\ UNCHANGED <<remote, bucket, cfg, plan, idx, tasks, bucket_files, runs,
                   nTaskQueries, nBucketQueries, callFailed>>
    /\ UNCHANGED <<mvars, wvars, svars, avars>>

\* "else: if export_id in tasks.keys(): ... continue"
E_SkipSubmitted ==
    /\ InLoop
    /\ ~NoSource(Cur)
    /\ ~cfg.overwrite
    /\ CurId \in DOMAIN tasks
    /\ idx' = idx + 1
    /\ UNCHANGED <<remote, bucket, pc, cfg, plan, tasks, bucket_files, runs,
                   nTaskQueries, nBucketQueries, callFailed>>
    /\ UNCHANGED <<mvars, wvars, svars, avars>>

\* "if f'{export_id}.csv' in bucket_files: ... continue"
E_SkipExists ==
    /\ InLoop
    /\ ~NoSource(Cur)
    /\ ~cfg.overwrite
    /\ CurId \notin DOMAIN tasks
    /\ (CurId \o ".csv") \in bucket_files
    /\ idx' = idx + 1
    /\ UNCHANGED <<remote, bucket, pc, cfg, plan, tasks, bucket_files, runs,
                   nTaskQueries, nBucketQueries, callFailed>>
    /\ UNCHANGED <<mvars, wvars, svars, avars>>

\* mutant: the task list is fetched again inside the loop
E_Proceed_Requery ==
    /\ InLoop
    /\ ~NoSource(Cur)
    /\ ~cfg.overwrite
    /\ \E f \in TaskSnapshots :
            /\ tasks' = f
            /\ CurId \notin DOMAIN f
    /\ nTaskQueries' = nTaskQueries + 1
    /\ (CurId \o ".csv") \notin bucket_files
    /\ pc' = "start"
    /\ UNCHANGED <<remote, bucket, cfg, plan, idx, bucket_files, runs,
                   nBucketQueries, callFailed>>
    /\ UNCHANGED <<mvars, wvars, svars, avars>>

\* neither skip applies: the iteration goes on to build the export
E_Proceed ==
    /\ InLoop
    /\ ~NoSource(Cur)
    /\ ~cfg.overwrite
    /\ CurId \notin DOMAIN tasks
    /\ (CurId \o ".csv") \notin bucket_files
    /\ pc' = "start"
    /\ UNCHANGED <<remote, bucket, cfg, plan, idx, tasks, bucket_files, runs,
                   nTaskQueries, nBucketQueries, callFailed>>
    /\ UNCHANGED <<mvars, wvars, svars, avars>>

\* source selection, Export.table.toCloudStorage and utils.ee_task_start(task)
E_StartTask ==
    /\ pc = "start"
    /\ IF Source(Cur).fatal
       THEN /\ pc' = "aborted"
            /\ UNCHANGED <<remote, idx>>
       ELSE /\ remote' = Append(remote, [desc |-> CurId, st |-> "ACTIVE",
                                         bucket |-> BucketOf(cfg.util),
                                         img |-> Source(Cur).img,
                                         src |-> Source(Cur).src])
            /\ idx' = idx + 1
            /\ pc' = "loop"
    /\ UNCHANGED <<bucket, cfg, plan, tasks, bucket_files, runs,
                   nTaskQueries, nBucketQueries, callFailed>>
    /\ UNCHANGED <<mvars, wvars, svars, avars>>

\* mutant: the failed start is caught and the loop goes on
E_StartTaskFails_Swallowed ==
    /\ pc = "start"
    /\ ~Source(Cur).fatal
    /\ pc' = "loop"
    /\ idx' = idx + 1
    /\ callFailed' = TRUE
    /\ UNCHANGED <<remote, bucket, cfg, plan, tasks, bucket_files, runs,
                   nTaskQueries, nBucketQueries>>
    /\ UNCHANGED <<mvars, wvars, svars, avars>>

\* utils.ee_task_start(task) raises: nothing catches it
E_StartTaskFails ==
    /\ pc = "start"
    /\ ~Source(Cur).fatal
    /\ pc' = "aborted"
    /\ callFailed' = TRUE
    /\ UNCHANGED <<remote, bucket, cfg, plan, idx, tasks, bucket_files, runs,
                   nTaskQueries, nBucketQueries>>
    /\ UNCHANGED <<mvars, wvars, svars, avars>>

\* mutant: the run ends only once no job of the service is active
E_Finish_WaitsForJobs ==
    /\ pc = "loop"
    /\ idx > Len(plan)
    /\ \A i \in DOMAIN remote : ~Active(i)
    /\ pc' = "done"
    /\ UNCHANGED <<remote, bucket, cfg, plan, idx, tasks, bucket_files, runs,
                   nTaskQueries, nBucketQueries, callFailed>>
    /\ UNCHANGED <<mvars, wvars, svars, avars>>

\* the last loop ends
E_Finish ==
    /\ pc = "loop"
    /\ idx > Len(plan)
    /\ pc' = "done"
    /\ UNCHANGED <<remote, bucket, cfg, plan, idx, tasks, bucket_files, runs,
                   nTaskQueries, nBucketQueries, callFailed>>
    /\ UNCHANGED <<mvars, wvars, svars, avars>>

(***************************************************************************)
(* write_features(): the merge of one year's records into a layer.         *)
(***************************************************************************)
\* the OPENET_IDs of a layer, and the years that have CROP_/CSRC_ fields
Fids == {"f1", "f2", "f3"}
FieldYears == {2007, 2020}

\* the cell texts of the stats file that read as a number, with int() of each;
\* int() of an empty cell (NaN) or of any other text raises
IntCells == { <<"0", 0>>, <<"75", 75>>, <<"88", 88>>, <<"150", 150>> }

Parses(cell) == \E p \in IntCells : p[1] = cell
int(cell) == (CHOOSE p \in IntCells : p[1] = cell)[2]

\* "try: new_crop_type = int(values[crop_type_field]) except: new_crop_type = 0"
new_crop_type(values) == IF Parses(values.crop) THEN int(values.crop) ELSE 0

\* "try: new_crop_src = values[crop_src_field] except: new_crop_src = ''"
new_crop_src(values) == values.src

\* mutant: a conflict updates the provenance although the value is kept
write_features_SrcOnConflict(layer, features, year, overwrite) ==
    [f \in DOMAIN layer |->
        IF f \notin DOMAIN features THEN layer[f]
        ELSE IF new_crop_type(features[f]) = 0 THEN layer[f]
        ELSE IF layer[f].crop[year] > 0 /\ ~overwrite
             THEN [layer[f] EXCEPT !.src[year] = new_crop_src(features[f])]
             ELSE [layer[f] EXCEPT !.crop[year] = new_crop_type(features[f])]]

\* mutant: the test for a zero incoming value is lost
write_features_ZeroWritten(layer, features, year, overwrite) ==
    [f \in DOMAIN layer |->
        IF f \notin DOMAIN features THEN layer[f]
        ELSE IF layer[f].crop[year] > 0 /\ ~overwrite THEN layer[f]
        ELSE [layer[f] EXCEPT !.crop[year] = new_crop_type(features[f]),
                              !.src[year] = new_crop_src(features[f])]]

\* mutant: the overwrite argument is ignored
write_features_NeverOverwrites(layer, features, year, overwrite) ==
    [f \in DOMAIN layer |->
        IF f \notin DOMAIN features THEN layer[f]
        ELSE IF new_crop_type(features[f]) = 0 THEN layer[f]
        ELSE IF layer[f].crop[year] > 0 THEN layer[f]
        ELSE [layer[f] EXCEPT !.crop[year] = new_crop_type(features[f]),
                              !.src[year] = new_crop_src(features[f])]]

\* mutant: a record with no feature of its OPENET_ID is added as a feature
write_features_AddsUnmatched(layer, features, year, overwrite) ==
    [f \in DOMAIN layer \cup DOMAIN features |->
        IF f \notin DOMAIN layer
        THEN [crop |-> [y \in FieldYears |-> new_crop_type(features[f])],
              src |-> [y \in FieldYears |-> new_crop_src(features[f])]]
        ELSE IF f \notin DOMAIN features THEN layer[f]
        ELSE IF new_crop_type(features[f]) = 0 THEN layer[f]
        ELSE IF layer[f].crop[year] > 0 /\ ~overwrite THEN layer[f]
        ELSE [layer[f] EXCEPT !.crop[year] = new_crop_type(features[f]),
                              !.src[year] = new_crop_src(features[f])]]

\* mutant: the value is written without its provenance
write_features_DropsSource(layer, features, year, overwrite) ==
    [f \in DOMAIN layer |->
        IF f \notin DOMAIN features THEN layer[f]
        ELSE IF new_crop_type(features[f]) = 0 THEN layer[f]
        ELSE IF layer[f].crop[year] > 0 /\ ~overwrite THEN layer[f]
        ELSE [layer[f] EXCEPT !.crop[year] = new_crop_type(features[f])]]

\* the layer after write_features(shp_path, features, year, overwrite)
write_features(layer, features, year, overwrite) ==
    [f \in DOMAIN layer |->
        IF f \notin DOMAIN features THEN layer[f]
        ELSE IF new_crop_type(features[f]) = 0 THEN layer[f]
        ELSE IF layer[f].crop[year] > 0 /\ ~overwrite THEN layer[f]
        ELSE [layer[f] EXCEPT !.crop[year] = new_crop_type(features[f]),
                              !.src[year] = new_crop_src(features[f])]]

(***************************************************************************)
(* WriteSpec: write_features() called, twice at most, on a layer.          *)
(***************************************************************************)
\* calls of write_features in one behaviour
MaxCalls == 2

Feature(v, s) == [crop |-> [y \in FieldYears |-> v], src |-> [y \in FieldYears |-> s]]

\* a stored CROP_ value with its CSRC_: 0 is unset
StoredValues == { <<0, "">>, <<150, "old">> }

WfLayers ==
    { [f \in Fids |-> IF f = "f1" THEN Feature(a[1], a[2])
                      ELSE IF f = "f2" THEN Feature(b[1], b[2])
                      ELSE Feature(150, "old")] :
        a \in StoredValues, b \in StoredValues }

Rec(crop, src, count, total) ==
    [crop |-> crop, src |-> src, count |-> count, total |-> total]

\* the records of a stats file: "f3" has none, "f9" is no feature of the layer
WfRecords == { Rec(c, "new", 4, 4) : c \in {"0", "75", "", "n/a"} }

WfFeatures ==
    { [f \in {"f1", "f2", "f9"} |-> IF f = "f1" THEN a ELSE IF f = "f2" THEN b ELSE a] :
        a \in WfRecords, b \in WfRecords }

W_Init ==
    /\ wf_layer \in WfLayers
    /\ wf_features \in WfFeatures
    /\ wf_year \in FieldYears
    /\ wf_overwrite \in BOOLEAN
    /\ wf_calls = <<wf_layer>>
    /\ wf_before = wf_layer

W_Idle ==
    /\ wf_layer = [f \in {} |-> 0]
    /\ wf_features = [f \in {} |-> 0]
    /\ wf_year = 0
    /\ wf_overwrite = FALSE
    /\ wf_calls = <<>>
    /\ wf_before = [f \in {} |-> 0]

\* one call of write_features with the same arguments
W_Write ==
    /\ Len(wf_calls) <= MaxCalls
    /\ wf_calls # <<>>
    /\ wf_layer' = write_features(wf_layer, wf_features, wf_year, wf_overwrite)
    /\ wf_before' = wf_layer
    /\ wf_calls' = Append(wf_calls, wf_layer')
    /\ UNCHANGED <<wf_features, wf_year, wf_overwrite>>
    /\ UNCHANGED <<evars, mvars, svars, avars>>

(***************************************************************************)
(* MergeSpec: main() of the Result Merger.                                 *)
(***************************************************************************)
\* f'{state}_{product}_{year}.csv'.lower()
stats_name(state, product, year) ==
    lower(state) \o "_" \o product \o "_" \o ToString(year) \o ".csv"

\* cdl_state_years[state] in the order of the run's years
StateYears(state) ==
    SelectSeq(m_cfg.years,
              LAMBDA y : y \in cdl_state_years(state, m_cfg.states, m_cfg.years))

\* mutant: the clearing loop resets the fields of every year
ClearYears_EveryYear(layer, years) ==
    [f \in DOMAIN layer |->
        [crop |-> [y \in DOMAIN layer[f].crop |-> 0],
         src |-> [y \in DOMAIN layer[f].src |-> ""]]]

\* the clearing loop of an overwrite run
ClearYears(layer, years) ==
    [f \in DOMAIN layer |->
        [crop |-> [y \in DOMAIN layer[f].crop |->
                      IF y \in Range(years) THEN 0 ELSE layer[f].crop[y]],
         src |-> [y \in DOMAIN layer[f].src |->
                      IF y \in Range(years) THEN "" ELSE layer[f].src[y]]]]

\* mutant: the coverage filter is skipped in an overwrite run
DropLowCoverage_NotOnOverwrite(features) ==
    IF m_cfg.overwrite THEN features
    ELSE [k \in { k \in DOMAIN features :
                    features[k].total > 0
                    /\ 2 * features[k].count >= features[k].total } |-> features[k]]

\* "if ((v['PIXEL_TOTAL'] > 0) and (v['PIXEL_COUNT'] / v['PIXEL_TOTAL']) >= 0.50)";
\* for whole pixel counts the quotient is at least 0.50 exactly when twice the
\* count is at least the total
DropLowCoverage(features) ==
    [k \in { k \in DOMAIN features :
               features[k].total > 0
               /\ 2 * features[k].count >= features[k].total } |-> features[k]]

\* "elif ftr[f'CROP_{year}'] == 0: logging.debug(f'  {ftr["OPENET_ID"]} - ...')":
\* the records of the CSV branch have no OPENET_ID key, so the message raises
LogRaises(features) ==
    \E k \in DOMAIN features : Parses(features[k].crop) /\ int(features[k].crop) = 0

Event(op, state, year) == [op |-> op, state |-> state, year |-> year]

MState == m_cfg.states[m_si]

Crash(err) ==
    /\ m_pc' = "crashed"
    /\ m_err' = err

\* "if state == 'CA': continue"
M_CdlSkipCA ==
    /\ m_pc = "cdl"
    /\ m_si <= Len(m_cfg.states)
    /\ m_yi = 0
    /\ MState = "CA"
    /\ m_si' = m_si + 1
    /\ UNCHANGED <<shp, stats_ws, blobs, m_pc, m_cfg, m_yi, m_err, m_log>>
    /\ UNCHANGED <<evars, wvars, svars, avars>>

\* "if not os.path.isfile(shp_path): ... continue"
M_CdlSkipNoShp ==
    /\ m_pc = "cdl"
    /\ m_si <= Len(m_cfg.states)
    /\ m_yi = 0
    /\ MState # "CA"
    /\ MState \notin DOMAIN shp
    /\ m_si' = m_si + 1
    /\ m_log' = Append(m_log, Event("skip_state", MState, 0))
    /\ UNCHANGED <<shp, stats_ws, blobs, m_pc, m_cfg, m_yi, m_err>>
    /\ UNCHANGED <<evars, wvars, svars, avars>>

\* the state has a shapefile: clear it in an overwrite run, go to its years
M_CdlBegin ==
    /\ m_pc = "cdl"
    /\ m_si <= Len(m_cfg.states)
    /\ m_yi = 0
    /\ MState # "CA"
    /\ MState \in DOMAIN shp
    /\ IF m_cfg.overwrite
       THEN /\ shp' = [shp EXCEPT ![MState] = ClearYears(@, m_cfg.years)]
            /\ m_log' = Append(m_log, Event("clear", MState, 0))
       ELSE UNCHANGED <<shp, m_log>>
    /\ m_yi' = 1
    /\ UNCHANGED <<stats_ws, blobs, m_pc, m_cfg, m_si, m_err>>
    /\ UNCHANGED <<evars, wvars, svars, avars>>

\* one iteration of "for year in cdl_state_years[state]"
M_CdlYear ==
    /\ m_pc = "cdl"
    /\ m_si <= Len(m_cfg.states)
    /\ m_yi >= 1
    /\ m_yi <= Len(StateYears(MState))
    /\ LET year == StateYears(MState)[m_yi]
           name == stats_name(MState, "cdl", year)
           download == name \notin DOMAIN stats_ws \/ m_cfg.overwrite
       IN  IF download /\ name \notin DOMAIN blobs
           THEN \* get_blob returns None; None.download_to_filename raises
                /\ Crash("no blob")
                /\ UNCHANGED <<shp, stats_ws, m_yi, m_log>>
           ELSE LET file == IF download THEN blobs[name] ELSE stats_ws[name]
                IN  /\ stats_ws' = IF download
                                   THEN [n \in DOMAIN stats_ws \cup {name} |->
                                            IF n = name THEN file ELSE stats_ws[n]]
                                   ELSE stats_ws
                    /\ IF LogRaises(file)
                       THEN /\ Crash("KeyError")
                            /\ UNCHANGED <<shp, m_yi, m_log>>
                       ELSE /\ shp' = [shp EXCEPT ![MState] =
                                         write_features(@, file, year, m_cfg.overwrite)]
                            /\ m_yi' = m_yi + 1
                            /\ m_log' = Append(m_log,
                                   Event(IF download THEN "download_merge" ELSE "merge",
                                         MState, year))
                            /\ UNCHANGED <<m_pc, m_err>>
    /\ UNCHANGED <<blobs, m_cfg, m_si>>
    /\ UNCHANGED <<evars, wvars, svars, avars>>

\* the years of the state are done
M_CdlNextState ==
    /\ m_pc = "cdl"
    /\ m_si <= Len(m_cfg.states)
    /\ m_yi > Len(StateYears(MState))
    /\ m_si' = m_si + 1
    /\ m_yi' = 0
    /\ UNCHANGED <<shp, stats_ws, blobs, m_pc, m_cfg, m_err, m_log>>
    /\ UNCHANGED <<evars, wvars, svars, avars>>

\* the CDL loop is done: "if 'CA' in states"
M_CdlDone ==
    /\ m_pc = "cdl"
    /\ m_si > Len(m_cfg.states)
    /\ m_pc' = IF "CA" \in Range(m_cfg.states) THEN "ca" ELSE "done"
    /\ UNCHANGED <<shp, stats_ws, blobs, m_cfg, m_si, m_yi, m_err, m_log>>
    /\ UNCHANGED <<evars, wvars, svars, avars>>

\* California: "if not os.path.isfile(shp_path): logging.info(...)" skips
\* nothing; an overwrite run opens the shapefile to clear it (ogr.UseExceptions
\* makes the failed Open raise)
M_CaBegin ==
    /\ m_pc = "ca"
    /\ IF m_cfg.overwrite
       THEN IF "CA" \notin DOMAIN shp
            THEN /\ Crash("no shapefile")
                 /\ UNCHANGED <<shp, m_log, m_yi>>
            ELSE /\ shp' = [shp EXCEPT !["CA"] = ClearYears(@, m_cfg.years)]
                 /\ m_log' = Append(m_log, Event("clear", "CA", 0))
                 /\ m_pc' = "cadwr"
                 /\ m_yi' = 1
                 /\ UNCHANGED m_err
       ELSE /\ m_pc' = "cadwr"
            /\ m_yi' = 1
            /\ UNCHANGED <<shp, m_log, m_err>>
    /\ UNCHANGED <<stats_ws, blobs, m_cfg, m_si>>
    /\ UNCHANGED <<evars, wvars, svars, avars>>

\* one iteration of a California loop; filter is the pre-filter of the
\* records, logs whether the loop has the logging loop, write_overwrite the
\* overwrite argument of write_features
CaYear(product, first_year, force_download, filtered, logs, write_overwrite) ==
    LET year == m_cfg.years[m_yi]
        name == stats_name("CA", product, year)
        download == name \notin DOMAIN stats_ws \/ force_download
    IN  IF year < first_year
        THEN /\ m_yi' = m_yi + 1
             /\ UNCHANGED <<shp, stats_ws, m_pc, m_err, m_log>>
        ELSE IF download /\ name \notin DOMAIN blobs
        THEN /\ Crash("no blob")
             /\ UNCHANGED <<shp, stats_ws, m_yi, m_log>>
        ELSE LET file == IF download THEN blobs[name] ELSE stats_ws[name]
                 update_features == IF filtered THEN DropLowCoverage(file) ELSE file
             IN  /\ stats_ws' = IF download
                                THEN [n \in DOMAIN stats_ws \cup {name} |->
                                         IF n = name THEN file ELSE stats_ws[n]]
                                ELSE stats_ws
                 /\ IF logs /\ LogRaises(update_features)
                    THEN /\ Crash("KeyError")
                         /\ UNCHANGED <<shp, m_yi, m_log>>
                    ELSE IF "CA" \notin DOMAIN shp
                    THEN /\ Crash("no shapefile")
                         /\ UNCHANGED <<shp, m_yi, m_log>>
                    ELSE /\ shp' = [shp EXCEPT !["CA"] =
                                      write_features(@, update_features, year,
                                                     write_overwrite)]
                         /\ m_yi' = m_yi + 1
                         /\ m_log' = Append(m_log,
                                Event(IF download THEN "download_merge" ELSE "merge",
                                      product, year))
                         /\ UNCHANGED <<m_pc, m_err>>

\* "First update the shapefile with the California Crop Mapping values"
M_CadwrYear ==
    /\ m_pc = "cadwr"
    /\ m_yi <= Len(m_cfg.years)
    /\ CaYear("cadwr", 2009, m_cfg.overwrite, TRUE, FALSE, m_cfg.overwrite)
    /\ UNCHANGED <<blobs, m_cfg, m_si>>
    /\ UNCHANGED <<evars, wvars, svars, avars>>

M_CadwrDone ==
    /\ m_pc = "cadwr"
    /\ m_yi > Len(m_cfg.years)
    /\ m_pc' = "composite"
    /\ m_yi' = 1
    /\ UNCHANGED <<shp, stats_ws, blobs, m_cfg, m_si, m_err, m_log>>
    /\ UNCHANGED <<evars, wvars, svars, avars>>

\* mutant: the composite merge passes the overwrite flag on
M_CompositeYear_Overwrites ==
    /\ m_pc = "composite"
    /\ m_yi <= Len(m_cfg.years)
    /\ CaYear("composite", 2008, FALSE, FALSE, TRUE, m_cfg.overwrite)
    /\ UNCHANGED <<blobs, m_cfg, m_si>>
    /\ UNCHANGED <<evars, wvars, svars, avars>>

\* "Then update any missing values with the CA/CDL composite values"
M_CompositeYear ==
    /\ m_pc = "composite"
    /\ m_yi <= Len(m_cfg.years)
    /\ CaYear("composite", 2008, FALSE, FALSE, TRUE, FALSE)
    /\ UNCHANGED <<blobs, m_cfg, m_si>>
    /\ UNCHANGED <<evars, wvars, svars, avars>>

M_CompositeDone ==
    /\ m_pc = "composite"
    /\ m_yi > Len(m_cfg.years)
    /\ m_pc' = "done"
    /\ UNCHANGED <<shp, stats_ws, blobs, m_cfg, m_si, m_yi, m_err, m_log>>
    /\ UNCHANGED <<evars, wvars, svars, avars>>

(***************************************************************************)
(* The merger runs explored: configuration, shapefiles, bucket and local   *)
(* stats folder at the start of main().                                    *)
(***************************************************************************)
\* state lists after "sorted(list(set(...)))", year lists after "sorted(...)"
MConfigs ==
    { [states |-> c[1], years |-> c[2], overwrite |-> o] :
        c \in { << <<"ND">>, <<2007, 2020>> >>,
                << <<"CA">>, <<2007, 2020>> >>,
                << <<"CA", "ND">>, <<2020>> >> },
        o \in BOOLEAN }

\* a layer with a stored value (f1, f3) and an unset one (f2)
MixedLayer == [f \in Fids |-> IF f = "f2" THEN Feature(0, "") ELSE Feature(150, "old")]

\* the CSRC_<year> that set_properties() gives every record of an export:
\* crop_source of the CDL export and of the composite export, crop_src of the
\* regional-map export
ExportSource(state, product, year, c) ==
    IF product = "cdl" THEN CdlSource(state, year, c.states, c.years).src
    ELSE IF product = "cadwr" THEN LandiqSource(year).src
    ELSE CompositeSource(year).src

\* the stats files main() looks for, each with the CSRC_<year> of its records
NeededFiles(c) ==
    UNION { { [name |-> stats_name(st, "cdl", y), product |-> "cdl",
               src |-> ExportSource(st, "cdl", y, c)] :
                y \in cdl_state_years(st, c.states, c.years) } :
            st \in Range(c.states) \ {"CA"} }
    \cup
    { [name |-> stats_name("CA", "cadwr", y), product |-> "cadwr",
       src |-> ExportSource("CA", "cadwr", y, c)] :
        y \in { y \in Range(c.years) : "CA" \in Range(c.states) /\ y >= 2009 } }
    \cup
    { [name |-> stats_name("CA", "composite", y), product |-> "composite",
       src |-> ExportSource("CA", "composite", y, c)] :
        y \in { y \in Range(c.years) : "CA" \in Range(c.states) /\ y >= 2008 } }

\* the records of a file: the same record for f1 (stored value) and f2
\* (unset), none for f3, one for f9, which is no feature
FileOf(r) == [f \in {"f1", "f2", "f9"} |-> r]

\* the files an export can have left in the bucket under the name of r
ContentsOf(r) ==
    IF r.product = "cadwr"
    THEN { FileOf(Rec(c, r.src, p[1], p[2])) :
             c \in {"0", "75", ""}, p \in { <<0, 0>>, <<1, 4>>, <<2, 4>> } }
    ELSE { FileOf(Rec(c, r.src, 0, 0)) : c \in {"0", "88", ""} }

\* a copy left in the local stats folder by an earlier run
StaleFile == FileOf(Rec("150", "stale", 4, 4))

AllContents(c) == UNION { ContentsOf(r) : r \in NeededFiles(c) }

FolderChoices(c) ==
    LET need == NeededFiles(c)
        names == { r.name : r \in need }
        needed(n) == CHOOSE r \in need : r.name = n
    IN  { b \in UNION { [D -> AllContents(c)] : D \in SUBSET names } :
            \A n \in DOMAIN b : b[n] \in ContentsOf(needed(n)) }

LocalChoices(c) ==
    { [n \in D |-> StaleFile] : D \in SUBSET { r.name : r \in NeededFiles(c) } }

M_Init ==
    /\ m_cfg \in MConfigs
    /\ shp \in { [st \in D |-> MixedLayer] : D \in SUBSET Range(m_cfg.states) }
    /\ blobs \in FolderChoices(m_cfg)
    /\ stats_ws \in LocalChoices(m_cfg)
    /\ m_pc = "cdl"
    /\ m_si = 1
    /\ m_yi = 0
    /\ m_err = ""
    /\ m_log = <<>>

M_Idle ==
    /\ m_cfg = [states |-> <<>>, years |-> <<>>, overwrite |-> FALSE]
    /\ shp = [st \in {} |-> 0]
    /\ blobs = [n \in {} |-> 0]
    /\ stats_ws = [n \in {} |-> 0]
    /\ m_pc = "off"
    /\ m_si = 1
    /\ m_yi = 0
    /\ m_err = ""
    /\ m_log = <<>>

E_Idle ==
    /\ remote = <<>>
    /\ bucket = [b \in Buckets |-> {}]
    /\ pc = "off"
    /\ cfg = [util |-> "crop_type", states |-> <<>>, years |-> <<>>, overwrite |-> FALSE]
    /\ plan = <<>>
    /\ idx = 1
    /\ tasks = EmptyTasks
    /\ bucket_files = {}
    /\ runs = 0
    /\ nTaskQueries = 0
    /\ nBucketQueries = 0
    /\ callFailed = FALSE

(***************************************************************************)
(* SelectSpec: what the CDL loops do with one requested (state, year):     *)
(* the year filter, the coverage test and the choice of the image.         *)
(***************************************************************************)
\* how far outside [year_min, year_max] the requested years reach
YearMargin == 3

\* mutant: year_max itself is dropped
InRange_ExclusiveMax(requested) == { y \in requested : y < year_max /\ y >= year_min }

\* "if ((year <= year_max) and (year >= year_min))"
InRange(requested) == { y \in requested : y <= year_max /\ y >= year_min }

\* sorted(list(years), reverse=True)
RECURSIVE SortedReverse(_)
SortedReverse(S) ==
    IF S = {} THEN <<>>
    ELSE LET m == CHOOSE x \in S : \A y \in S : y <= x
         IN  <<m>> \o SortedReverse(S \ {m})

Outcome(kind, img, src) == [kind |-> kind, img |-> img, src |-> src]

\* the body of "for state in states: ... for year in years:" of the CDL
\* export, up to the choice of the image
CdlIteration(state, year, states, years) ==
    IF state = "CA"
    THEN Outcome("not_cdl", "", "")
    ELSE IF year \notin cdl_state_years(state, states, years)
    THEN Outcome("skipped", "", "")
    ELSE IF CdlSource(state, year, states, years).fatal
    THEN Outcome("fatal", "", "")
    ELSE Outcome("job", CdlSource(state, year, states, years).img,
                 CdlSource(state, year, states, years).src)

\* the body of "for year in years:" of the two California exports, up to the
\* choice of the image
CaIteration(state, year) ==
    IF state # "CA"
    THEN [landiq |-> Outcome("not_ca", "", ""), composite |-> Outcome("not_ca", "", "")]
    ELSE [landiq |->
            IF year < 2009 THEN Outcome("skipped", "", "")
            ELSE IF LandiqSource(year).fatal THEN Outcome("fatal", "", "")
            ELSE Outcome("job", LandiqSource(year).img, LandiqSource(year).src),
          composite |->
            IF year < cdl_year_min THEN Outcome("skipped", "", "")
            ELSE Outcome("job", CompositeSource(year).img, CompositeSource(year).src)]

NoCaOutcome == [landiq |-> Outcome("none", "", ""), composite |-> Outcome("none", "", "")]

\* the merger's "for year in cdl_state_years[state]" (California is skipped)
MergeYears(state, states, years) ==
    IF state = "CA" THEN {} ELSE cdl_state_years(state, states, years)

SelectStateLists ==
    { <<"ND">>, <<"ID">>, <<"MS">>, <<"TX">>, <<"CA">>, <<"AR", "WA">>, <<"nd">> }

RequestedYears == (year_min - YearMargin)..(year_max + YearMargin)

S_Init ==
    /\ s_pc = "ready"
    /\ s_states \in SelectStateLists
    /\ s_requested \in { {y} : y \in RequestedYears } \cup { {y, 2010} : y \in RequestedYears }
    /\ s_state = ""
    /\ s_year = 0
    /\ s_out = Outcome("none", "", "")
    /\ s_ca_out = NoCaOutcome
    /\ s_covered = FALSE
    /\ s_ca_remap = [landiq |-> FALSE, composite |-> FALSE]
    /\ s_merge_years = {}

S_Idle ==
    /\ s_pc = "off"
    /\ s_states = <<>>
    /\ s_requested = {}
    /\ s_state = ""
    /\ s_year = 0
    /\ s_out = Outcome("none", "", "")
    /\ s_ca_out = NoCaOutcome
    /\ s_covered = FALSE
    /\ s_ca_remap = [landiq |-> FALSE, composite |-> FALSE]
    /\ s_merge_years = {}

\* a requested year outside the range never becomes an iteration
S_Select ==
    /\ s_pc = "ready"
    /\ \E st \in Range(s_states), y \in s_requested :
          LET years == SortedReverse(InRange(s_requested))
          IN  /\ s_state' = st
              /\ s_year' = y
              /\ s_out' = IF y \notin Range(years)
                          THEN Outcome("dropped", "", "")
                          ELSE CdlIteration(st, y, s_states, years)
              /\ s_ca_out' = IF y \notin Range(years)
                             THEN [landiq |-> Outcome("dropped", "", ""),
                                   composite |-> Outcome("dropped", "", "")]
                             ELSE CaIteration(st, y)
              /\ s_covered' = (y \in cdl_state_years(st, s_states, years))
              /\ s_ca_remap' = [landiq |-> /\ s_ca_out'.landiq.kind = "job"
                                           /\ LandiqRemaps(y),
                                composite |-> /\ s_ca_out'.composite.kind = "job"
                                              /\ CompositeRemaps(y)]
              /\ s_merge_years' = MergeYears(st, s_states, years)
    /\ s_pc' = "done"
    /\ UNCHANGED <<s_states, s_requested>>
    /\ UNCHANGED <<evars, mvars, wvars, avars>>

(***************************************************************************)
(* SetupSpec: the year enumeration and the loading of the remap table at   *)
(* the start of main().                                                    *)
(***************************************************************************)
\* tokens in a --years argument, rows in the remap table
MaxTokens == 2
MaxRows == 2

\* "range(1, 256)"
CodeMax == 255

BoundedSeq(S, n) == UNION { [1..k -> S] : k \in 0..n }

\* sorted(...)
SortedAscending(S) ==
    IF S = {} THEN <<>>
    ELSE LET lo == CHOOSE x \in S : \A y \in S : x <= y
             hi == CHOOSE x \in S : \A y \in S : y <= x
         IN  SelectSeq([i \in 1 .. (hi - lo + 1) |-> lo + i - 1], LAMBDA x : x \in S)

\* a token of --years: the year lo (lo = hi) or the range lo-hi
Tok(lo, hi) == [lo |-> lo, hi |-> hi]

\* utils.str_ranges_2_list(year_str): the years the token stands for
str_ranges_2_list(tok) == tok.lo .. tok.hi

YearTokens ==
    { Tok(y, y) : y \in {year_min - 1, year_min, 2010, year_max, year_max + 1} }
    \cup { Tok(year_min - 2, year_min + 1), Tok(year_max - 1, year_max + 2) }

\* the years asked for by the tokens
Requested(tokens) == UNION { str_ranges_2_list(tokens[i]) : i \in DOMAIN tokens }

\* "if not years: years = range(year_min, year_max+1) else: years = {...}"
YearSet(tokens) ==
    IF tokens = <<>> THEN year_min .. year_max ELSE InRange(Requested(tokens))

\* the rows of the authored table: a code with two rows, a code outside 1..255
RemapRows == { <<1, 47>>, <<1, 2>>, <<2, 47>>, <<CodeMax, 176>>, <<CodeMax + 1, 1>> }

AuthoredKeys(rows) == { rows[i][1] : i \in DOMAIN rows }

\* dict(zip(remap_df.IN, remap_df.OUT)) after sort_values(by='IN'): one value
\* per IN; of the rows with the same IN the sort decides which comes last
AuthoredDicts(rows) ==
    { d \in [AuthoredKeys(rows) -> { rows[i][2] : i \in DOMAIN rows }] :
        \A k \in DOMAIN d : \E i \in DOMAIN rows : rows[i] = <<k, d[k]>> }

\* mutant: the fill stops one code short, "range(1, 255)"
DefaultFill_StopsShort(d) ==
    [c \in DOMAIN d \cup (1 .. (CodeMax - 1)) |-> IF c \in DOMAIN d THEN d[c] ELSE c]

\* "for cdl_code in set(range(1, 256)) - set(cdl_annual_remap.keys()):
\*      cdl_annual_remap[cdl_code] = cdl_code"
DefaultFill(d) ==
    [c \in DOMAIN d \cup (1 .. CodeMax) |-> IF c \in DOMAIN d THEN d[c] ELSE c]

\* "cdl_remap_in, cdl_remap_out = map(list, zip(*cdl_annual_remap.items()))":
\* the authored keys in the order of the sort, then the filled codes
RemapIn(d) ==
    SortedAscending(DOMAIN d) \o SortedAscending(DOMAIN DefaultFill(d) \ DOMAIN d)

RemapOut(d) ==
    LET codes == RemapIn(d)
        filled == DefaultFill(d)
    IN  [i \in DOMAIN codes |-> filled[codes[i]]]

A_Init ==
    /\ \/ /\ a_pc = "years"
          /\ a_tokens \in BoundedSeq(YearTokens, MaxTokens)
          /\ a_rows = <<>>
       \/ /\ a_pc = "remap"
          /\ a_tokens = <<>>
          /\ a_rows \in BoundedSeq(RemapRows, MaxRows)
    /\ a_export_years = <<>>
    /\ a_merge_years = <<>>
    /\ a_remap_in = <<>>
    /\ a_remap_out = <<>>

A_Idle ==
    /\ a_pc = "off"
    /\ a_tokens = <<>>
    /\ a_rows = <<>>
    /\ a_export_years = <<>>
    /\ a_merge_years = <<>>
    /\ a_remap_in = <<>>
    /\ a_remap_out = <<>>

\* the year enumeration of the exporter and of the merger
A_Years ==
    /\ a_pc = "years"
    /\ a_export_years' = SortedReverse(YearSet(a_tokens))
    /\ a_merge_years' = SortedAscending(YearSet(a_tokens))
    /\ a_pc' = "done"
    /\ UNCHANGED <<a_tokens, a_rows, a_remap_in, a_remap_out>>
    /\ UNCHANGED <<evars, mvars, wvars, svars>>

\* the loading of the remap table
A_Remap ==
    /\ a_pc = "remap"
    /\ \E d \in AuthoredDicts(a_rows) :
          /\ a_remap_in' = RemapIn(d)
          /\ a_remap_out' = RemapOut(d)
    /\ a_pc' = "filled"
    /\ UNCHANGED <<a_tokens, a_rows, a_export_years, a_merge_years>>
    /\ UNCHANGED <<evars, mvars, wvars, svars>>

\* outputs of earlier work that the crop-type bucket may already hold
PriorOutputs == { {}, {"nd_cdl_2020.csv"} }

E_Init ==
    /\ remote = <<>>
    /\ \E prior \in PriorOutputs :
            bucket = [b \in Buckets |-> IF b = CropBucket THEN prior ELSE {}]
    /\ pc = "idle"
    /\ cfg = [util |-> "crop_type", states |-> <<>>, years |-> <<>>, overwrite |-> FALSE]
    /\ plan = <<>>
    /\ idx = 1
    /\ tasks = EmptyTasks
    /\ bucket_files = {}
    /\ runs = 0
    /\ nTaskQueries = 0
    /\ nBucketQueries = 0
    /\ callFailed = FALSE

Next ==
    \/ E_StartRun
    \/ E_Initialize
    \/ E_InitializeFails
    \/ E_GetTasks
    \/ E_GetTasksFails
    \/ E_ListBucket
    \/ E_ListBucketFails
    \/ E_SkipNoSource
    \/ E_Overwrite
    \/ E_CancelFails
    \/ E_SkipSubmitted
    \/ E_SkipExists
    \/ E_Proceed
    \/ E_StartTask
    \/ E_StartTaskFails
    \/ E_Finish
    \/ R_Complete

Init == E_Init /\ M_Idle /\ W_Idle /\ S_Idle /\ A_Idle

Spec == Init /\ [][Next]_vars

\* the steps of a run of main(): the script runs on once it is started, while
\* nothing makes the remote service complete a job
RunStep ==
    \/ E_Initialize
    \/ E_InitializeFails
    \/ E_GetTasks
    \/ E_GetTasksFails
    \/ E_ListBucket
    \/ E_ListBucketFails
    \/ E_SkipNoSource
    \/ E_Overwrite
    \/ E_CancelFails
    \/ E_SkipSubmitted
    \/ E_SkipExists
    \/ E_Proceed
    \/ E_StartTask
    \/ E_StartTaskFails
    \/ E_Finish

\* jobs of the remote service that another session has started
PriorJobs ==
    { <<>>,
      << [desc |-> "nd_cdl_2020", st |-> "ACTIVE", bucket |-> CropBucket,
          img |-> cdl_coll_id \o "/2020", src |-> cdl_coll_id \o "/2020"] >> }

\* the last run of a behaviour on its own: every earlier run has failed at
\* ee.Initialize and has left the service and the buckets as they were
E_LastRunInit ==
    /\ remote \in PriorJobs
    /\ \E prior \in PriorOutputs :
            bucket = [b \in Buckets |-> IF b = CropBucket THEN prior ELSE {}]
    /\ pc = "aborted"
    /\ \E c \in Configs : \E p \in PlansOf(c) :
            /\ cfg = c
            /\ plan = p
    /\ idx = 1
    /\ tasks = EmptyTasks
    /\ bucket_files = {}
    /\ runs = MaxRuns - 1
    /\ nTaskQueries = 0
    /\ nBucketQueries = 0
    /\ callFailed = TRUE

FairInit == E_LastRunInit /\ M_Idle /\ W_Idle /\ S_Idle /\ A_Idle

FairSpec == FairInit /\ [][Next]_vars /\ WF_vars(RunStep)

MergeInit == E_Idle /\ M_Init /\ W_Idle /\ S_Idle /\ A_Idle

MergeNext ==
    \/ M_CdlSkipCA
    \/ M_CdlSkipNoShp
    \/ M_CdlBegin
    \/ M_CdlYear
    \/ M_CdlNextState
    \/ M_CdlDone
    \/ M_CaBegin
    \/ M_CadwrYear
    \/ M_CadwrDone
    \/ M_CompositeYear
    \/ M_CompositeDone

MergeSpec == MergeInit /\ [][MergeNext]_vars

WriteInit == E_Idle /\ M_Idle /\ W_Init /\ S_Idle /\ A_Idle

WriteNext == W_Write

WriteSpec == WriteInit /\ [][WriteNext]_vars

SelectInit == E_Idle /\ M_Idle /\ W_Idle /\ S_Init /\ A_Idle

SelectNext == S_Select

SelectSpec == SelectInit /\ [][SelectNext]_vars

SetupInit == E_Idle /\ M_Idle /\ W_Idle /\ S_Idle /\ A_Init

SetupNext ==
    \/ A_Years
    \/ A_Remap

SetupSpec == SetupInit /\ [][SetupNext]_vars

(***************************************************************************)
(* Remote Job Submitter: properties.                                       *)
(***************************************************************************)
Submitted == Len(remote') = Len(remote) + 1
NewTask == remote'[Len(remote')]
Running == pc \in {"loop", "start"}
Prev == plan[idx - 1]
PrevId == export_id(Prev)
Attempted(it) == ~NoSource(it)
ActiveWith(d) == { i \in DOMAIN remote : Active(i) /\ remote[i].desc = d }

\* C1: in a run without overwrite a job is submitted only for an identifier
\* that is in neither the active-task snapshot nor (as "<id>.csv") the bucket
\* listing; an identifier of the snapshot is skipped, and no step of the run
\* cancels a job.
C1_SubmitOnlyIfAbsent ==
    [][ (Running /\ ~cfg.overwrite) =>
          /\ Submitted =>
                /\ NewTask.desc \notin DOMAIN tasks
                /\ (NewTask.desc \o ".csv") \notin bucket_files
          /\ (InLoop /\ Attempted(Cur) /\ CurId \in DOMAIN tasks) =>
                (pc' = "loop" /\ Len(remote') = Len(remote))
          /\ \A i \in DOMAIN remote :
                remote'[i].st = "CANCELLED" => remote[i].st = "CANCELLED" ]_vars

\* C1 witness: the previous iteration found its identifier in the snapshot and
\* skipped it; the job of the snapshot is still active.
C1_Witness ==
    /\ pc = "loop"
    /\ ~cfg.overwrite
    /\ idx > 1
    /\ Attempted(Prev)
    /\ PrevId \in DOMAIN tasks
    /\ Active(tasks[PrevId])
    /\ Cardinality(ActiveWith(PrevId)) = 1

\* C2: at most one non-cancelled job of an identifier is outstanding.
C2_OneOutstandingJob ==
    \A i, j \in DOMAIN remote :
        (Active(i) /\ Active(j) /\ remote[i].desc = remote[j].desc) => i = j

\* C3: in a run with overwrite every attempted identifier goes on to be
\* submitted, whatever the bucket listing holds; the job the snapshot has for
\* it is cancelled first, so it is no longer active when the new one starts.
C3_OverwriteCancelsThenSubmits ==
    /\ [](cfg.overwrite /\ pc = "start" /\ CurId \in DOMAIN tasks
            => ~Active(tasks[CurId]))
    /\ [][ (cfg.overwrite /\ InLoop /\ Attempted(Cur)) =>
              /\ idx' = idx
              /\ pc' \in {"loop", "start", "aborted"}
              /\ (pc' = "start" /\ CurId \in DOMAIN tasks /\ Active(tasks[CurId]))
                    => remote'[tasks[CurId]].st = "CANCELLED" ]_vars
    /\ [][ (cfg.overwrite /\ pc = "start" /\ pc' = "loop") =>
              /\ Submitted
              /\ NewTask.desc = CurId
              /\ NewTask.st = "ACTIVE" ]_vars

\* C3 witness: an overwrite run has just resubmitted an identifier whose job of
\* the snapshot it cancelled and whose output was in the bucket listing.
C3_Witness ==
    /\ pc = "loop"
    /\ cfg.overwrite
    /\ idx > 1
    /\ Attempted(Prev)
    /\ PrevId \in DOMAIN tasks
    /\ remote[tasks[PrevId]].st = "CANCELLED"
    /\ (PrevId \o ".csv") \in bucket_files
    /\ remote[Len(remote)].desc = PrevId
    /\ Active(Len(remote))

\* C8: a failed call to the remote service (authentication, task list, bucket
\* listing, cancel, start) ends the run: the run is aborted, and an aborted
\* run processes no further identifier and submits nothing.
C8_FailureAborts ==
    /\ [](callFailed => pc = "aborted")
    /\ [](Running => nTaskQueries = 1 /\ ~callFailed)
    /\ [][ pc = "aborted" =>
              \/ pc' = "auth"
              \/ (pc' = "aborted" /\ idx' = idx /\ Len(remote') = Len(remote)) ]_vars

\* C8 witness: the start of a job failed in the middle of a run, with
\* iterations left.
C8_Witness ==
    /\ pc = "aborted"
    /\ callFailed
    /\ nBucketQueries = 1
    /\ idx < Len(plan)
    /\ Attempted(Cur)
    /\ ~cfg.overwrite
    /\ CurId \notin DOMAIN tasks

\* C9: the task list and the bucket listing are each fetched once, before the
\* first iteration; the loop never refreshes the snapshots, although the
\* remote task list and the bucket change under it.
C9_SnapshotsOnce ==
    /\ [](pc \in {"loop", "start", "done"} =>
            nTaskQueries = 1 /\ nBucketQueries = 1)
    /\ [](pc \in {"auth", "tasks", "bucket"} => idx = 1)
    /\ [](pc \in {"auth", "tasks"} => nTaskQueries = 0)
    /\ [](pc \in {"auth", "tasks", "bucket"} => nBucketQueries = 0)
    /\ [][ Running =>
              /\ tasks' = tasks
              /\ bucket_files' = bucket_files
              /\ nTaskQueries' = nTaskQueries
              /\ nBucketQueries' = nBucketQueries ]_vars

\* C9 witness: the loop is past its first identifier and the snapshot is stale:
\* it still lists a job that has completed, and the bucket has a file the
\* listing lacks.
C9_Witness ==
    /\ pc = "loop"
    /\ idx > 1
    /\ \E d \in DOMAIN tasks : remote[tasks[d]].st = "COMPLETED"
    /\ bucket[BucketOf(cfg.util)] # bucket_files

(***************************************************************************)
(* write_features(): properties, checked under WriteSpec.                  *)
(***************************************************************************)
Called == Len(wf_calls) > 1
HasRecord(f) == f \in DOMAIN wf_layer /\ f \in DOMAIN wf_features
OtherYearsKept(f) ==
    \A y \in FieldYears \ {wf_year} :
        /\ wf_layer[f].crop[y] = wf_before[f].crop[y]
        /\ wf_layer[f].src[y] = wf_before[f].src[y]

\* C5: with overwrite disabled the layer after the second application of the
\* same records equals the layer after the first.
C5_MergeIdempotent ==
    (Len(wf_calls) = 3 /\ ~wf_overwrite) => wf_calls[3] = wf_calls[2]

\* C5 witness: both applications are done, and the first one changed the layer.
C5_Witness ==
    /\ Len(wf_calls) = 3
    /\ ~wf_overwrite
    /\ wf_calls[2] # wf_calls[1]

\* C6: for a feature with a record whose crop-type is a non-zero number: a
\* non-zero stored value without overwrite keeps the feature unchanged;
\* otherwise CROP_<year> and CSRC_<year> become the record's value and
\* provenance, the fields of the other years staying as they were.
C6_NonZeroPolicy ==
    Called =>
        \A f \in Fids :
            (HasRecord(f) /\ Parses(wf_features[f].crop)
                /\ int(wf_features[f].crop) # 0)
            => IF wf_before[f].crop[wf_year] # 0 /\ ~wf_overwrite
               THEN wf_layer[f] = wf_before[f]
               ELSE /\ wf_layer[f].crop[wf_year] = int(wf_features[f].crop)
                    /\ wf_layer[f].src[wf_year] = wf_features[f].src
                    /\ OtherYearsKept(f)

\* C6 witness: overwrite replaced a stored 150 by the record's 75 and its
\* provenance.
C6_Witness ==
    /\ Len(wf_calls) = 2
    /\ wf_overwrite
    /\ wf_before["f1"].crop[wf_year] = 150
    /\ wf_features["f1"].crop = "75"
    /\ wf_layer["f1"].crop[wf_year] = 75
    /\ wf_layer["f1"].src[wf_year] = "new"

(***************************************************************************)
(* Result Merger: properties, checked under MergeSpec.                     *)
(***************************************************************************)
\* PIXEL_COUNT / PIXEL_TOTAL is below 0.50, or PIXEL_TOTAL is 0
LowCoverage(r) == r.total = 0 \/ 2 * r.count < r.total

CadwrYearAt(i) == m_cfg.years[i]
CadwrNameAt(i) == stats_name("CA", "cadwr", CadwrYearAt(i))

\* the last step of the run merged a result file: the event, the shapefile
\* and the file of that merge (the local stats folder keeps the file read)
Merged == m_log # <<>> /\ m_log[Len(m_log)].op \in {"merge", "download_merge"}
LastEvent == m_log[Len(m_log)]
MergedState ==
    IF LastEvent.state \in {"cadwr", "composite"} THEN "CA" ELSE LastEvent.state
MergedFile ==
    stats_ws[IF LastEvent.state \in {"cadwr", "composite"}
             THEN stats_name("CA", LastEvent.state, LastEvent.year)
             ELSE stats_name(LastEvent.state, "cdl", LastEvent.year)]

C7_LowCoverageNeverMerged ==
    [][ (m_pc = "cadwr" /\ m_yi <= Len(m_cfg.years) /\ "CA" \in DOMAIN shp) =>
          \A f \in Fids :
              (/\ CadwrNameAt(m_yi) \in DOMAIN stats_ws'
               /\ f \in DOMAIN stats_ws'[CadwrNameAt(m_yi)]
               /\ LowCoverage(stats_ws'[CadwrNameAt(m_yi)][f]))
              => shp'["CA"][f] = shp["CA"][f] ]_vars

\* C7 witness: an overwrite run has merged a regional-map file whose record
\* for the unset feature f2 is a non-zero crop type with coverage 1/4; f2 is
\* still unset.
C7_Witness ==
    /\ m_pc = "cadwr"
    /\ m_cfg.overwrite
    /\ m_yi > 1
    /\ CadwrYearAt(m_yi - 1) >= 2009
    /\ "CA" \in DOMAIN shp
    /\ CadwrNameAt(m_yi - 1) \in DOMAIN stats_ws
    /\ stats_ws[CadwrNameAt(m_yi - 1)]["f2"].crop = "75"
    /\ stats_ws[CadwrNameAt(m_yi - 1)]["f2"].count = 1
    /\ stats_ws[CadwrNameAt(m_yi - 1)]["f2"].total = 4
    /\ shp["CA"]["f2"].crop[CadwrYearAt(m_yi - 1)] = 0
    /\ m_log # <<>>
    /\ m_log[Len(m_log)] = Event("download_merge", "cadwr", CadwrYearAt(m_yi - 1))

\* C10: a missing shapefile or a missing result file never ends the run: the
\* state or year is skipped and the run goes on.
C10_MissingArtifactSkipped ==
    m_pc = "crashed" => m_err \notin {"no shapefile", "no blob"}

\* the stats file a merge event read
EventName(e) ==
    IF e.state \in {"cadwr", "composite"}
    THEN stats_name("CA", e.state, e.year)
    ELSE stats_name(e.state, "cdl", e.year)

\* this step merged a result file
MergeStep ==
    /\ Len(m_log') = Len(m_log) + 1
    /\ m_log'[Len(m_log')].op \in {"merge", "download_merge"}

\* C11: for every product, a step that merges a result file has downloaded it
\* exactly when the overwrite flag is set or the local stats folder had no
\* copy; otherwise it read the local copy.
C11_DownloadIffAbsentOrForced ==
    [][ MergeStep =>
          ((m_log'[Len(m_log')].op = "download_merge")
             <=> (m_cfg.overwrite
                    \/ EventName(m_log'[Len(m_log')]) \notin DOMAIN stats_ws)) ]_vars

(***************************************************************************)
(* Coverage Table and Source Selector: properties, checked under           *)
(* SelectSpec.                                                             *)
(***************************************************************************)
Selected == s_pc = "done"
NativeImage(year) == "USDA/NASS/CDL/" \o ToString(year)
RemappedImage(year) == NativeImage(year) \o " - remapped annual crops"

\* C12: a requested year from 2008 to the newest native year is covered for
\* every state of the run; for a state other than California the CDL export
\* then makes a job for it and the merger's CDL loop visits it.
C12_FullCoverageFrom2008 ==
    (Selected /\ s_year \in 2008..cdl_year_max) =>
        /\ s_covered
        /\ s_state # "CA" => (s_out.kind = "job" /\ s_year \in s_merge_years)

\* C12 witness: the newest native year for a state that no override year lists.
C12_Witness ==
    /\ Selected
    /\ s_state = "TX"
    /\ s_year = 2024
    /\ s_covered
    /\ s_out.kind = "job"
    /\ 2024 \in s_merge_years

\* C13: in a year from 1997 to 2007 a state is covered exactly when the
\* table lists it for that year, and a year that is no key of the table is
\* covered for no state; an uncovered (state, year) gets no CDL export job and
\* is not visited by the merger's CDL loop.
C13_OverrideYearsExact ==
    (Selected /\ s_state # "CA") =>
        /\ s_year \in CdlOverrideYears =>
              IF s_state \in CdlOverride(s_year)
              THEN s_out.kind = "job" /\ s_year \in s_merge_years
              ELSE s_out.kind = "skipped" /\ s_year \notin s_merge_years
        /\ s_year \notin CdlYearKeys =>
              s_out.kind \notin {"job", "fatal"} /\ s_year \notin s_merge_years

\* C13 witness: TX is listed for no year before 2008, and 2000 was asked for.
C13_Witness ==
    /\ Selected
    /\ s_state = "TX"
    /\ s_year = 2000
    /\ s_out.kind = "skipped"
    /\ s_merge_years \cap CdlOverrideYears = {}

\* C14: a requested year beyond the newest native year ends in an export of
\* the newest native image, remapped, with the provenance
\* "<image> - remapped annual crops".
C14_BeyondNewestRemapped ==
    (Selected /\ s_state # "CA" /\ s_year > cdl_year_max) =>
        s_out = Outcome("job", NativeImage(cdl_year_max), RemappedImage(cdl_year_max))

\* C15: a requested year before 2008 for which the state is not listed ends
\* in an export of the oldest full-coverage image, remapped, with the remapped
\* provenance.
C15_BeforeOldestRemapped ==
    (/\ Selected
     /\ s_state # "CA"
     /\ s_year \in year_min..(cdl_year_min - 1)
     /\ s_state \notin CdlOverride(s_year)) =>
        s_out = Outcome("job", NativeImage(cdl_year_min), RemappedImage(cdl_year_min))

\* C16: asking for ID 2005 or CA 2007 makes the run fail: one of the loops
\* raises for the pair, none skips it silently.
C16_InvalidPairFatal ==
    (Selected /\ <<s_state, s_year>> \in { <<"ID", 2005>>, <<"CA", 2007>> }) =>
        \/ s_out.kind = "fatal"
        \/ s_ca_out.landiq.kind = "fatal"
        \/ s_ca_out.composite.kind = "fatal"

\* C17: a covered (state, year) outside the remap rules and outside 2005 and
\* 2007 is exported from the native image of the year, and the provenance is
\* the image id itself; ND 1997 is such a pair.
C17_NativeVerbatim ==
    (/\ Selected
     /\ s_out.kind \in {"job", "fatal"}
     /\ s_year <= cdl_year_max
     /\ s_year \notin {2005, 2007}) =>
        s_out = Outcome("job", NativeImage(s_year), NativeImage(s_year))

\* C17 witness: ND 1997 resolves to USDA/NASS/CDL/1997, provenance the same.
C17_Witness ==
    /\ Selected
    /\ s_state = "ND"
    /\ s_year = 1997
    /\ s_out = Outcome("job", "USDA/NASS/CDL/1997", "USDA/NASS/CDL/1997")

(***************************************************************************)
(* Provenance from the export to the shapefile, checked under MergeSpec.   *)
(***************************************************************************)
\* the product of a merge event
EventProduct(e) == IF e.state \in {"cadwr", "composite"} THEN e.state ELSE "cdl"
EventState(e) == IF e.state \in {"cadwr", "composite"} THEN "CA" ELSE e.state

PlacesOf(c) == { i \in DOMAIN a_remap_in : a_remap_in[i] = c }

\* C21: once the remap table is loaded and filled, every code in 1..255 is
\* in cdl_remap_in exactly once, with one output code at the same place of
\* cdl_remap_out, and every code in 1..255 that has no row in the authored
\* table maps to itself.
C21_RemapTotal ==
    a_pc = "filled" =>
        /\ Len(a_remap_in) = Len(a_remap_out)
        /\ \A c \in 1 .. CodeMax :
              /\ Cardinality(PlacesOf(c)) = 1
              /\ c \notin AuthoredKeys(a_rows)
                    => \A i \in PlacesOf(c) : a_remap_out[i] = c

\* C21 witness: the authored table has rows for 2 and for 255 only; after the
\* fill 2 maps to 47, 255 to 176, and the unauthored codes 1 and 254 to
\* themselves.
C21_Witness ==
    /\ a_pc = "filled"
    /\ a_rows = << <<2, 47>>, <<CodeMax, 176>> >>
    /\ Len(a_remap_in) = CodeMax
    /\ \E i \in DOMAIN a_remap_in : a_remap_in[i] = 2 /\ a_remap_out[i] = 47
    /\ \E i \in DOMAIN a_remap_in : a_remap_in[i] = CodeMax /\ a_remap_out[i] = 176
    /\ \E i \in DOMAIN a_remap_in : a_remap_in[i] = 1 /\ a_remap_out[i] = 1
    /\ \E i \in DOMAIN a_remap_in :
          a_remap_in[i] = CodeMax - 1 /\ a_remap_out[i] = CodeMax - 1

\* C22: the years of a run, in the exporter and in the merger, hold no year
\* twice, hold only years of year_min..year_max, are in order (the exporter's
\* from the newest year down, the merger's from the oldest year up) and are
\* exactly the requested years of that range; a requested year outside the
\* range is left out and the enumeration completes.
C22_YearsDedupedFilteredSorted ==
    a_pc = "done" =>
        /\ \A i \in DOMAIN a_export_years :
              /\ a_export_years[i] >= year_min
              /\ a_export_years[i] <= year_max
              /\ \A j \in DOMAIN a_export_years :
                    i < j => a_export_years[i] > a_export_years[j]
        /\ \A i \in DOMAIN a_merge_years :
              /\ a_merge_years[i] >= year_min
              /\ a_merge_years[i] <= year_max
              /\ \A j \in DOMAIN a_merge_years :
                    i < j => a_merge_years[i] < a_merge_years[j]
        /\ Range(a_export_years) = Range(a_merge_years)
        /\ a_tokens # <<>>
              => Range(a_export_years)
                    = { y \in Requested(a_tokens) : year_min <= y /\ y <= year_max }

\* C22 witness: the tokens are the range from the year before year_max to two
\* years after it and year_max again: the enumeration is done, the years
\* are year_max and the year before it, once each.
C22_Witness ==
    /\ a_pc = "done"
    /\ a_tokens = << Tok(year_max - 1, year_max + 2), Tok(year_max, year_max) >>
    /\ a_export_years = << year_max, year_max - 1 >>
    /\ a_merge_years = << year_max - 1, year_max >>

(***************************************************************************)
(* Remote Job Submitter: termination, checked under FairSpec.              *)
(***************************************************************************)
\* C23: a run that has started reaches its end, having gone through every
\* iteration of its loops unless a call failed, whether or not any job of
\* the remote service ever completes.
C23_RunEndsWithoutWaiting ==
    (pc \notin {"idle", "done", "aborted"})
        ~> (\/ pc = "done" /\ idx > Len(plan)
            \/ pc = "aborted")

\* C23 witness: a run has ended after starting a job for each of its two
\* iterations; both jobs are still active and no job has completed.
C23_Witness ==
    /\ pc = "done"
    /\ Len(plan) = 2
    /\ idx > Len(plan)
    /\ Len(remote) = 2
    /\ \A i \in DOMAIN remote : Active(i) /\ remote[i].desc # "nd_cdl_2020"

MergerNames(c) ==
    { stats_name(st, product, y) :
        st \in Range(c.states), product \in {"cdl", "cadwr", "composite"},
        y \in Range(c.years) }

\* C25: the result file of every completed crop-type job is a file the
\* merger looks for when it is run for the same states and years.
C25_ExportedIsLookedFor ==
    \A i \in DOMAIN remote :
        (remote[i].bucket = CropBucket /\ remote[i].st = "COMPLETED")
        => \E c \in Configs :
              /\ c.util = "crop_type"
              /\ (remote[i].desc \o ".csv") \in MergerNames(c)

(***************************************************************************)
(* California merge: order of the two loops, checked under MergeSpec.      *)
(***************************************************************************)
\* C26: in the log of a run no regional-map merge comes after a composite
\* merge, and a step of the composite loop leaves every non-zero CROP_<year>
\* of a California feature, with its CSRC_<year>, as it was, in an overwrite
\* run too.
C26_RegionalMapWins ==
    /\ [](\A i, j \in DOMAIN m_log :
            (m_log[i].state = "composite" /\ m_log[j].state = "cadwr") => j < i)
    /\ [][ (m_pc = "composite" /\ "CA" \in DOMAIN shp) =>
            \A f \in Fids : \A y \in FieldYears :
                shp["CA"][f].crop[y] # 0
                => /\ shp'["CA"][f].crop[y] = shp["CA"][f].crop[y]
                   /\ shp'["CA"][f].src[y] = shp["CA"][f].src[y] ]_vars

\* C26 witness: an overwrite run has merged the regional-map file of 2020,
\* which gave the feature f2 the value 75, and then the composite file of
\* 2020, whose record for f2 is 88: f2 holds 75 with the provenance of the
\* regional map.
C26_Witness ==
    /\ m_cfg.overwrite
    /\ Merged
    /\ LastEvent.state = "composite"
    /\ LastEvent.year = 2020
    /\ MergedFile["f2"].crop = "88"
    /\ \E i \in DOMAIN m_log : m_log[i].state = "cadwr" /\ m_log[i].year = 2020
    /\ shp["CA"]["f2"].crop[2020] = 75
    /\ shp["CA"]["f2"].src[2020] = ExportSource("CA", "cadwr", 2020, m_cfg)

(***************************************************************************)
(* Clearing of an overwrite run, checked under MergeSpec.                  *)
(***************************************************************************)
\* this step cleared the shapefile of a state
ClearStep ==
    /\ Len(m_log') = Len(m_log) + 1
    /\ m_log'[Len(m_log')].op = "clear"

\* the run has merged a result of the state for the year
MergedFor(st, y) ==
    \E i \in DOMAIN m_log :
        /\ m_log[i].op \in {"merge", "download_merge"}
        /\ EventState(m_log[i]) = st
        /\ m_log[i].year = y

\* C27: in an overwrite run the clearing step of a state sets CROP_<year> to
\* 0 and CSRC_<year> to '' for every feature and every selected year and
\* leaves the fields of the other years as they were; every merge of a result
\* of the state comes after that step; and a selected year for which no
\* result of the state is merged stays cleared.
C27_OverwriteClearsSelectedYears ==
    /\ [][ ClearStep =>
            LET st == m_log'[Len(m_log')].state
            IN  /\ m_cfg.overwrite
                /\ \A f \in DOMAIN shp[st] : \A y \in FieldYears :
                      IF y \in Range(m_cfg.years)
                      THEN /\ shp'[st][f].crop[y] = 0
                           /\ shp'[st][f].src[y] = ""
                      ELSE /\ shp'[st][f].crop[y] = shp[st][f].crop[y]
                           /\ shp'[st][f].src[y] = shp[st][f].src[y] ]_vars
    /\ [](m_cfg.overwrite =>
            \A j \in DOMAIN m_log :
                m_log[j].op \in {"merge", "download_merge"}
                => \E i \in 1 .. (j - 1) :
                      m_log[i] = Event("clear", EventState(m_log[j]), 0))
    /\ [](m_cfg.overwrite =>
            \A i \in DOMAIN m_log :
                m_log[i].op = "clear"
                => \A f \in Fids : \A y \in Range(m_cfg.years) \cap FieldYears :
                      ~MergedFor(m_log[i].state, y)
                      => /\ shp[m_log[i].state][f].crop[y] = 0
                         /\ shp[m_log[i].state][f].src[y] = "")

\* C27 witness: an overwrite run for California and the years 2007 and 2020
\* has ended; it merged results for 2020 and none for 2007, for which
\* California has no result; the feature f1, which held 150 for 2007, holds
\* 0 with an empty provenance.
C27_Witness ==
    /\ m_pc = "done"
    /\ m_cfg.overwrite
    /\ m_cfg.years = <<2007, 2020>>
    /\ MixedLayer["f1"].crop[2007] = 150
    /\ m_log[1] = Event("clear", "CA", 0)
    /\ MergedFor("CA", 2020)
    /\ ~MergedFor("CA", 2007)
    /\ shp["CA"]["f1"].crop[2007] = 0
    /\ shp["CA"]["f1"].src[2007] = ""

(***************************************************************************)
(* Split years and the California images, checked under SelectSpec.        *)
(***************************************************************************)
\* C28: for a covered pair of year 2005 the CDL export makes a job with the
\* image 2005b for MS and 2005a for any other state, for a covered pair of
\* year 2007 a job with the image 2007a; the provenance is the image id.
C28_SplitYearHalves ==
    (Selected /\ s_covered /\ s_state # "CA") =>
        /\ s_year = 2005 =>
              s_out = IF s_state = "MS"
                      THEN Outcome("job", "USDA/NASS/CDL/2005b", "USDA/NASS/CDL/2005b")
                      ELSE Outcome("job", "USDA/NASS/CDL/2005a", "USDA/NASS/CDL/2005a")
        /\ s_year = 2007 =>
              s_out = Outcome("job", "USDA/NASS/CDL/2007a", "USDA/NASS/CDL/2007a")

\* C28 witness: Mississippi 2005 is covered and takes the image 2005b.
C28_Witness ==
    /\ Selected
    /\ s_covered
    /\ s_state = "MS"
    /\ s_year = 2005
    /\ s_out.kind = "job"
    /\ s_out.img = cdl_coll_id \o "/2005b"
    /\ s_out.src = s_out.img

\* the year of the regional image that C29 names for the year y
RegionalYear(y) ==
    IF y \in {2014, 2016} \cup (2018 .. 2023) THEN y
    ELSE IF y > 2023 THEN 2023
    ELSE IF y \in {2015, 2017} THEN y - 1
    ELSE 2014

\* C29: for California and a year from 2009 on that the run iterates over,
\* the regional export and the composite export take the same regional
\* image, the one of the year itself for 2014, 2016 and 2018..2023, 2023 for
\* a later year, the year before for 2015 and 2017, 2014 for 2009..2013, and
\* both remap it except in the first case; the provenance of the regional
\* export is the image id in the first case and the image id followed by
\* " - remapped annual crops" otherwise.  For a year before 2009 the regional
\* export makes no job.
C29_SameRegionalImage ==
    (Selected /\ s_state = "CA") =>
        /\ s_year < 2009 => s_ca_out.landiq.kind # "job"
        /\ (s_year >= 2009 /\ s_year <= year_max) =>
              LET img == ca_coll_id \o "/" \o ToString(RegionalYear(s_year))
                  direct == RegionalYear(s_year) = s_year
              IN  /\ s_ca_out.landiq.kind = "job"
                  /\ s_ca_out.composite.kind = "job"
                  /\ s_ca_out.landiq.img = img
                  /\ s_ca_out.composite.img = img
                  /\ s_ca_remap.landiq = ~direct
                  /\ s_ca_remap.composite = ~direct
                  /\ s_ca_out.landiq.src
                        = IF direct THEN img ELSE img \o " - remapped annual crops"

\* C29 witness: for California 2015 both exports take the 2014 image and
\* remap it.
C29_Witness ==
    /\ Selected
    /\ s_state = "CA"
    /\ s_year = 2015
    /\ s_ca_out.landiq = Outcome("job", ca_coll_id \o "/2014",
                                 ca_coll_id \o "/2014 - remapped annual crops")
    /\ s_ca_out.composite.img = ca_coll_id \o "/2014"
    /\ s_ca_remap = [landiq |-> TRUE, composite |-> TRUE]

(***************************************************************************)
(* Order of the two queries of a run, checked under Spec.                  *)
(***************************************************************************)
\* the job is active or has written its output
Outstanding(i) == remote[i].st \in {"ACTIVE", "COMPLETED"}

\* C30: when a run has made its two queries, every job of its bucket that is
\* active or has completed is in the active-task snapshot or has its file in
\* the bucket listing, whenever it completed; and a run with overwrite
\* disabled starts a job for an identifier it has not had before in its
\* loops only if no job with that identifier is active or has completed.
C30_SeenByOneQuery ==
    /\ []((pc = "loop" /\ idx = 1) =>
            \A i \in DOMAIN remote :
                (Outstanding(i) /\ remote[i].bucket = BucketOf(cfg.util))
                => \/ remote[i].desc \in DOMAIN tasks
                   \/ (remote[i].desc \o ".csv") \in bucket_files)
    /\ [][ (/\ pc = "start"
            /\ Len(remote') = Len(remote) + 1
            /\ ~cfg.overwrite
            /\ \A k \in 1 .. (idx - 1) : export_id(plan[k]) # CurId)
           => \A i \in DOMAIN remote :
                 (remote[i].desc = CurId /\ remote[i].bucket = BucketOf(cfg.util))
                 => ~Outstanding(i) ]_vars

\* C30 witness: the job ca_composite_2020 of the first run was active when
\* the second run, with overwrite disabled, took its snapshot and had written
\* its file when the run listed the bucket; the run has ended and the job is
\* still the only one with that identifier.
C30_Witness ==
    /\ runs = 2
    /\ pc = "done"
    /\ ~cfg.overwrite
    /\ "ca_composite_2020" \in DOMAIN tasks
    /\ "ca_composite_2020.csv" \in bucket_files
    /\ remote[tasks["ca_composite_2020"]].st = "COMPLETED"
    /\ Cardinality({ i \in DOMAIN remote : remote[i].desc = "ca_composite_2020" }) = 1

====
